---- MODULE Spec2Model ----
(***************************************************************************)
(* Model of ZHANG_HWK_3_OPT.py: a Pyomo script that declares a least-cost  *)
(* wind / solar / storage capacity-expansion LP, loads hourly data from a  *)
(* CSV file, creates the model instance, solves it with an external LP     *)
(* solver and writes the results object to a JSON file.                    *)
(*                                                                         *)
(* Numbers.  TLC has integers only, so every real quantity is an integer   *)
(* multiple of a unit:                                                     *)
(*   - efficiencies and the minimum level are percentages (95, 90, 20);    *)
(*     an equation that multiplies or divides by one of them is written    *)
(*     multiplied through by the denominators, which keeps it exact;       *)
(*   - costs are in thousands of dollars per unit;                         *)
(*   - capacity factors are 0 or 1;                                        *)
(*   - power and energy are integers.  The LP is homogeneous in (demand,   *)
(*     variables), so the unit of power is free: demand 171 stands for any *)
(*     positive demand d and 371 for d * (1 + 1/(0.95*0.9)).               *)
(* The external solver is modelled by what its contract says: it returns   *)
(* a minimum-cost point among the points that satisfy every declared       *)
(* constraint and domain, or reports infeasible when there is none.  The   *)
(* points it searches are those of a finite lattice (below).  The LP's     *)
(* objective is bounded below by 0 (costs and variables are >= 0), so an   *)
(* unbounded outcome does not arise; the script sets no time limit.        *)
(***************************************************************************)
EXTENDS Integers, FiniteSets, Sequences, TLC

VARIABLES pc, file, costs, data, instance, values, results, output

vars == <<pc, file, costs, data, instance, values, results, output>>

(***************************************************************************)
(* Bounds of the model.                                                    *)
(***************************************************************************)
\* The number of hours the script declares for model.t (8760 in the source),
\* scaled down.  Data files have Hours rows, or one row less.
Hours == 2
\* The lattice holds 0..FlowSteps charge steps for the power variables and
\* 0..StoreSteps steps for the energy variables.  A file of n hours whose LP
\* is feasible has a lattice point when FlowSteps >= n - 1 and
\* StoreSteps >= n - 1: the worst case charges in one hour what the n - 1
\* others discharge.
FlowSteps == 1
StoreSteps == 2

(***************************************************************************)
(* Constants and assumptions of the script (lines 12-25).                  *)
(***************************************************************************)
solar_cap_cost == 800000
wind_cap_cost == 1200000
ESS_p_cap_cost == 200000
ESS_e_cap_cost == 150000
ESS_min_level == 20
ESS_eta_c == 95
ESS_eta_d == 90
ESS_p_var_cost == 5
curtailment_cost == 1

\* model.tech
tech == {"w_cap", "s_cap", "ESS_power_cap", "ESS_energy_cap"}

\* The initialize= dictionary of model.costs, and the two operating costs the
\* objective reads from the module's globals.
ConfiguredCosts ==
    [s_cap |-> solar_cap_cost, w_cap |-> wind_cap_cost,
     ESS_power_cap |-> ESS_p_cap_cost, ESS_energy_cap |-> ESS_e_cap_cost,
     ESS_p_var_cost |-> ESS_p_var_cost, curtailment_cost |-> curtailment_cost]

\* The same script with its storage cost constants set to zero.
ZeroStorageCosts ==
    [s_cap |-> solar_cap_cost, w_cap |-> wind_cap_cost,
     ESS_power_cap |-> 0, ESS_energy_cap |-> 0,
     ESS_p_var_cost |-> 0, curtailment_cost |-> curtailment_cost]

(***************************************************************************)
(* The lattice of candidate values.                                        *)
(***************************************************************************)
\* Charging ChargeStep and discharging DischargeStep leave the state of
\* charge where it was: ChargeStep * 0.95 = DischargeStep / 0.9 = SocStep.
ChargeStep == (100 * 100) \div 50
DischargeStep == (ESS_eta_c * ESS_eta_d) \div 50
SocStep == (ChargeStep * ESS_eta_c) \div 100
\* The smallest reserve r such that a store of capacity r*100/ESS_min_level
\* holds r + SocStep.
ReserveStep == (SocStep * ESS_min_level) \div (100 - ESS_min_level) + 1
EnergyStep == (ReserveStep * 100) \div ESS_min_level

\* One positive demand level: what one DischargeStep serves.
DemandLevels == {0, DischargeStep}

\* Every set holds one negative value, which the variable's domain excludes.
GenLevels ==
    {-DischargeStep, 0} \cup {DischargeStep + ChargeStep * k : k \in 0..FlowSteps}
PowerLevels == {-ChargeStep} \cup {ChargeStep * k : k \in 0..FlowSteps}
EnergyLevels == {-EnergyStep} \cup {EnergyStep * k : k \in 0..StoreSteps}
SocLevels ==
    {-ReserveStep} \cup
    {ReserveStep * a + SocStep * b : a \in 0..StoreSteps, b \in 0..StoreSteps}
ChargeLevels == {-ChargeStep} \cup {ChargeStep * k : k \in 0..FlowSteps}
DischargeLevels == {-DischargeStep} \cup {DischargeStep * k : k \in 0..FlowSteps}
CurtLevels ==
    {-DischargeStep} \cup
    {DischargeStep * a + ChargeStep * b : a \in 0..2, b \in 0..FlowSteps}

(***************************************************************************)
(* Variable domains (lines 48-53).                                         *)
(***************************************************************************)
NonNegativeReals(v) == v >= 0

\* Faulty variant: the capacities declared over the reals.
cap_domain_Reals(v) == TRUE
cap_domain(v) == NonNegativeReals(v)
ESS_SOC_domain(v) == NonNegativeReals(v)
ESS_c_domain(v) == NonNegativeReals(v)
ESS_d_domain(v) == NonNegativeReals(v)
\* Faulty variant: curtailment declared over the reals.
curt_domain_Reals(v) == TRUE
curt_domain(v) == NonNegativeReals(v)

(***************************************************************************)
(* Objective and constraint rules (lines 57-87).  `model` is a record with *)
(* the instance's set t and parameters wind, solar, demand, costs and the  *)
(* variables cap, ESS_SOC, ESS_c, ESS_d, curt.                             *)
(***************************************************************************)
RECURSIVE SumOver(_, _)
SumOver(f, S) ==
    IF S = {} THEN 0
    ELSE LET i == CHOOSE j \in S : TRUE
         IN f[i] + SumOver(f, S \ {i})

first(t) == CHOOSE i \in t : \A j \in t : i <= j
last(t) == CHOOSE i \in t : \A j \in t : j <= i

\* Faulty variant: the capital cost term left out of the objective.
obj_expression_operating_only(model) ==
    SumOver([t \in model.t |->
               model.ESS_d[t] * model.costs.ESS_p_var_cost
               + model.curt[t] * model.costs.curtailment_cost], model.t)

obj_expression(model) ==
    SumOver([i \in tech |-> model.cap[i] * model.costs[i]], tech)
    + SumOver([t \in model.t |->
                 model.ESS_d[t] * model.costs.ESS_p_var_cost
                 + model.curt[t] * model.costs.curtailment_cost], model.t)

\* Faulty variant: the balance as an inequality (supply may exceed demand).
match_const_surplus(model, i) ==
    model.solar[i] * model.cap["s_cap"] + model.wind[i] * model.cap["w_cap"]
    + model.ESS_d[i] - model.ESS_c[i] - model.curt[i] - model.demand[i] >= 0

match_const(model, i) ==
    model.solar[i] * model.cap["s_cap"] + model.wind[i] * model.cap["w_cap"]
    + model.ESS_d[i] - model.ESS_c[i] - model.curt[i] - model.demand[i] = 0

ESS_charge_disc_const(model, i) ==
    model.ESS_c[i] + model.ESS_d[i] <= model.cap["ESS_power_cap"]

ESS_max_const(model, i) ==
    model.ESS_SOC[i] <= model.cap["ESS_energy_cap"]

\* Faulty variant: the minimum level taken as an absolute amount, not a fraction of
\* the installed energy capacity.
ESS_min_const_absolute(model, i) ==
    100 * model.ESS_SOC[i] >= ESS_min_level

ESS_min_const(model, i) ==
    100 * model.ESS_SOC[i] >= ESS_min_level * model.cap["ESS_energy_cap"]

\* Faulty variant: a store without losses.
SOC_balance_lossless(model, i, prev) ==
    model.ESS_SOC[i] = model.ESS_SOC[prev] + model.ESS_c[i] - model.ESS_d[i]

\* soc[i] == soc[prev] + c[i] * eta_c - d[i] / eta_d, times 100 * ESS_eta_d.
SOC_balance(model, i, prev) ==
    100 * ESS_eta_d * model.ESS_SOC[i]
    = 100 * ESS_eta_d * model.ESS_SOC[prev]
      + ESS_eta_d * ESS_eta_c * model.ESS_c[i]
      - 100 * 100 * model.ESS_d[i]

\* Faulty variant: no constraint for the first hour (Constraint.Skip).
SOC_const_skip_first(model, i) ==
    IF i = first(model.t)
    THEN TRUE
    ELSE SOC_balance(model, i, i - 1)

\* Faulty variant: the first hour starts from an empty store instead of the last
\* hour's state of charge.
SOC_const_from_empty(model, i) ==
    IF i = first(model.t)
    THEN 100 * ESS_eta_d * model.ESS_SOC[i]
         = ESS_eta_d * ESS_eta_c * model.ESS_c[i] - 100 * 100 * model.ESS_d[i]
    ELSE SOC_balance(model, i, i - 1)

SOC_const(model, i) ==
    IF i = first(model.t)
    THEN SOC_balance(model, i, last(model.t))
    ELSE SOC_balance(model, i, i - 1)

(***************************************************************************)
(* The data file and the instance.                                         *)
(***************************************************************************)
NoData == [t |-> {}, wind |-> <<>>, solar |-> <<>>, demand |-> <<>>]
NoInstance == [created |-> FALSE]
NoValues == [loaded |-> FALSE]
NoResults == [termination |-> "none", solution |-> NoValues]
NoOutput == [written |-> FALSE]

\* A CSV file with `rows` data rows: column t holds 0..rows-1 in row order.
Files(rowCounts) ==
    UNION { [t : {0..(n - 1)},
             wind : [0..(n - 1) -> {0, 1}],
             solar : [0..(n - 1) -> {0, 1}],
             demand : [0..(n - 1) -> DemandLevels]] : n \in rowCounts }

\* The model with instance `inst` and the variable values x.
Model(inst, x) ==
    [t |-> inst.t, wind |-> inst.wind, solar |-> inst.solar,
     demand |-> inst.demand, costs |-> inst.costs,
     cap |-> x.cap, ESS_SOC |-> x.ESS_SOC, ESS_c |-> x.ESS_c,
     ESS_d |-> x.ESS_d, curt |-> x.curt]

(***************************************************************************)
(* The points the LP admits: lattice points inside every variable's domain *)
(* that satisfy the five constraint families at every hour of model.t.     *)
(* They are enumerated hour by hour; the result is the set of lattice      *)
(* points x with Admits(inst, x).                                          *)
(***************************************************************************)
Admits(inst, x) ==
    LET model == Model(inst, x)
    IN /\ \A k \in tech : cap_domain(x.cap[k])
       /\ \A i \in inst.t :
            /\ ESS_SOC_domain(x.ESS_SOC[i])
            /\ ESS_c_domain(x.ESS_c[i])
            /\ ESS_d_domain(x.ESS_d[i])
            /\ curt_domain(x.curt[i])
            /\ match_const(model, i)
            /\ ESS_charge_disc_const(model, i)
            /\ ESS_max_const(model, i)
            /\ ESS_min_const(model, i)
            /\ SOC_const(model, i)

CapGrid ==
    { c \in [w_cap : GenLevels, s_cap : GenLevels,
             ESS_power_cap : PowerLevels, ESS_energy_cap : EnergyLevels] :
        \A k \in tech : cap_domain(c[k]) }

\* The values of hour i alone, as functions on {i}.
HourValues(i, s, c, d, cu) ==
    [ESS_SOC |-> (i :> s), ESS_c |-> (i :> c), ESS_d |-> (i :> d),
     curt |-> (i :> cu)]

HourModel(inst, cap, h) ==
    Model(inst, [cap |-> cap, ESS_SOC |-> h.ESS_SOC, ESS_c |-> h.ESS_c,
                 ESS_d |-> h.ESS_d, curt |-> h.curt])

\* (charge, discharge, curtailment) of hour i allowed by the domains, the
\* power limit and the power balance.
Flows(inst, cap, i) ==
    { p \in ChargeLevels \X DischargeLevels \X CurtLevels :
        /\ ESS_c_domain(p[1])
        /\ ESS_d_domain(p[2])
        /\ curt_domain(p[3])
        /\ LET m == HourModel(inst, cap, HourValues(i, 0, p[1], p[2], p[3]))
           IN ESS_charge_disc_const(m, i) /\ match_const(m, i) }

\* State of charge of hour i allowed by the domain and the energy bounds.
Levels(inst, cap, i) ==
    { s \in SocLevels :
        /\ ESS_SOC_domain(s)
        /\ LET m == HourModel(inst, cap, HourValues(i, s, 0, 0, 0))
           IN ESS_max_const(m, i) /\ ESS_min_const(m, i) }

\* tr (values of the hours before i) extended by the values h of hour i.
Extend(tr, h) ==
    [ESS_SOC |-> tr.ESS_SOC @@ h.ESS_SOC, ESS_c |-> tr.ESS_c @@ h.ESS_c,
     ESS_d |-> tr.ESS_d @@ h.ESS_d, curt |-> tr.curt @@ h.curt]

\* The dispatch of hours first..i that satisfies every constraint of those
\* hours but the recursion of the first hour, which reads the last hour.
RECURSIVE Trajectories(_, _, _)
Trajectories(inst, cap, i) ==
    LET here == { HourValues(i, s, p[1], p[2], p[3]) :
                    s \in Levels(inst, cap, i), p \in Flows(inst, cap, i) }
    IN IF i = first(inst.t)
       THEN here
       ELSE { Extend(q[1], q[2]) :
                q \in { r \in Trajectories(inst, cap, i - 1) \X here :
                          SOC_const(HourModel(inst, cap, Extend(r[1], r[2])), i) } }

FeasibleSet(inst) ==
    UNION { { [cap |-> cap, ESS_SOC |-> tr.ESS_SOC, ESS_c |-> tr.ESS_c,
               ESS_d |-> tr.ESS_d, curt |-> tr.curt] :
              tr \in { r \in Trajectories(inst, cap, last(inst.t)) :
                         SOC_const(HourModel(inst, cap, r), first(inst.t)) } } :
            cap \in CapGrid }

\* The minimum-cost points among S.
Optimal(inst, S) ==
    LET value == { obj_expression(Model(inst, x)) : x \in S }
        best == CHOOSE v \in value : \A w \in value : v <= w
    IN { x \in S : obj_expression(Model(inst, x)) = best }

(***************************************************************************)
(* The script, statement by statement.                                     *)
(***************************************************************************)
TypeOK ==
    /\ pc \in {"load_wind", "load_solar", "load_demand", "create_instance",
               "solve", "store_to", "write", "done", "aborted"}

Init ==
    /\ pc = "load_wind"
    /\ file \in Files({Hours - 1, Hours})
    /\ costs = ConfiguredCosts
    /\ data = NoData
    /\ instance = NoInstance
    /\ values = NoValues
    /\ results = NoResults
    /\ output = NoOutput

\* data.load(filename, select=('t', param), param=model.<param>, index=model.t):
\* the selected column becomes the parameter's data and column t the data of
\* its index set model.t.
data_load(at, param, next) ==
    /\ pc = at
    /\ data' = [data EXCEPT !.t = file.t, ![param] = file[param]]
    /\ pc' = next
    /\ UNCHANGED <<file, costs, instance, values, results, output>>

load_wind == data_load("load_wind", "wind", "load_solar")
load_solar == data_load("load_solar", "solar", "load_demand")
load_demand == data_load("load_demand", "demand", "create_instance")

\* model.create_instance(data): data given for a set replaces its initialize=
\* list, so model.t is column t of the file and not range(Hours).  Every
\* parameter has been loaded from the same rows, so each has a value for each
\* hour of model.t and every constraint rule can be built.
create_instance ==
    /\ pc = "create_instance"
    /\ instance' = [created |-> TRUE, t |-> data.t, wind |-> data.wind,
                    solar |-> data.solar, demand |-> data.demand, costs |-> costs]
    /\ pc' = "solve"
    /\ UNCHANGED <<file, costs, data, values, results, output>>

\* opt = SolverFactory('gurobi'); status = opt.solve(model), the solver found.
\* An optimal solution is loaded into the model's variables; an infeasible
\* problem comes back as a results object with a warning and no solution.
solve ==
    /\ pc = "solve"
    /\ LET F == FeasibleSet(instance)
       IN IF F = {}
          THEN /\ results' = [termination |-> "infeasible", solution |-> NoValues]
               /\ values' = values
          ELSE \E x \in Optimal(instance, F) :
                 /\ values' = [loaded |-> TRUE, cap |-> x.cap, ESS_SOC |-> x.ESS_SOC,
                               ESS_c |-> x.ESS_c, ESS_d |-> x.ESS_d, curt |-> x.curt]
                 /\ results' = [termination |-> "optimal", solution |-> NoValues]
    /\ pc' = "store_to"
    /\ UNCHANGED <<file, costs, data, instance, output>>

\* opt.solve(model) when the solver executable cannot be run: the call raises
\* and the script ends there.
solve_unavailable ==
    /\ pc = "solve"
    /\ pc' = "aborted"
    /\ UNCHANGED <<file, costs, data, instance, values, results, output>>

\* model.solutions.store_to(status)
store_to ==
    /\ pc = "store_to"
    /\ results' = [results EXCEPT !.solution = values]
    /\ pc' = "write"
    /\ UNCHANGED <<file, costs, data, instance, values, output>>

\* status.write(filename='ZHANG_HWK3_OPT_OUTPUTS.json', format='json')
write ==
    /\ pc = "write"
    /\ output' = [written |-> TRUE, termination |-> results.termination,
                  solution |-> results.solution]
    /\ pc' = "done"
    /\ UNCHANGED <<file, costs, data, instance, values, results>>

Next ==
    \/ load_wind
    \/ load_solar
    \/ load_demand
    \/ create_instance
    \/ solve
    \/ solve_unavailable
    \/ store_to
    \/ write

Spec == Init /\ [][Next]_vars

(***************************************************************************)
(* The 4-hour scenario: demand 10 in every hour (here DischargeStep),      *)
(* solar in the first two hours, wind in the last two.  SpecToy runs the   *)
(* script on files of that horizon, with the configured costs and with the *)
(* storage costs set to zero.                                              *)
(***************************************************************************)
ToySolar == <<1, 1, 0, 0>>
ToyWind == <<0, 0, 1, 1>>

\* The sequence s as a series indexed by the hours 0..Len(s)-1.
Series(s) == [i \in 0..(Len(s) - 1) |-> s[i + 1]]

ToyPatterns == {ToySolar, ToyWind, <<0, 0, 0, 0>>}

ToyFiles ==
    { [t |-> DOMAIN Series(so), wind |-> Series(wi), solar |-> Series(so),
       demand |-> [i \in DOMAIN Series(so) |-> DischargeStep]] :
        so \in ToyPatterns, wi \in ToyPatterns }

InitToy ==
    /\ pc = "load_wind"
    /\ file \in ToyFiles
    /\ costs \in {ConfiguredCosts, ZeroStorageCosts}
    /\ data = NoData
    /\ instance = NoInstance
    /\ values = NoValues
    /\ results = NoResults
    /\ output = NoOutput

SpecToy == InitToy /\ [][Next]_vars

(***************************************************************************)
(* Properties.                                                             *)
(***************************************************************************)
\* The solutions the LP of the created instance admits, looked at when the
\* script is about to hand the instance to the solver.
Admitted == IF pc = "solve" THEN FeasibleSet(instance) ELSE {}

\* The staged enumeration yields only points that satisfy every declaration.
EnumerationSound == \A x \in Admitted : Admits(instance, x)

Solved == values.loaded

AllZeroCF ==
    \A i \in file.t : file.wind[i] = 0 /\ file.solar[i] = 0

\* C1: in every solution the model admits, in every hour, solar and wind
\* generation plus discharge minus charge minus curtailment minus demand is
\* exactly zero (no slack, no unserved demand).
C1_PowerBalanceExact ==
    \A x \in Admitted : \A i \in instance.t :
        instance.solar[i] * x.cap.s_cap + instance.wind[i] * x.cap.w_cap
        + x.ESS_d[i] - x.ESS_c[i] - x.curt[i] - instance.demand[i] = 0

\* An admitted solution that generates, charges, discharges and curtails.
C1_Witness ==
    \E x \in Admitted :
        /\ \E i \in instance.t : x.ESS_c[i] > 0
        /\ \E i \in instance.t : x.ESS_d[i] > 0
        /\ \E i \in instance.t : x.curt[i] > 0

\* prev(t) = (t - 1 + |T|) mod |T|
CyclicPrev(t, hours) ==
    (t - 1 + Cardinality(hours)) % Cardinality(hours)

\* C2: in every admitted solution every hour obeys the recursion
\* soc[t] = soc[prev(t)] + charge[t]*0.95 - discharge[t]/0.9 with the cyclic
\* prev; the first hour is tied to the last one, so no hour is free.
C2_CyclicRecursion ==
    \A x \in Admitted : \A i \in instance.t :
        100 * ESS_eta_d * x.ESS_SOC[i]
        = 100 * ESS_eta_d * x.ESS_SOC[CyclicPrev(i, instance.t)]
          + ESS_eta_c * ESS_eta_d * x.ESS_c[i] - 100 * 100 * x.ESS_d[i]

\* An admitted solution over at least two hours whose first hour charges on
\* top of the last hour's state of charge.
C2_Witness ==
    \E x \in Admitted :
        /\ Cardinality(instance.t) >= 2
        /\ x.ESS_c[first(instance.t)] > 0
        /\ x.ESS_SOC[first(instance.t)] > x.ESS_SOC[last(instance.t)]

\* C3: in every admitted solution, in every hour, the state of charge lies
\* between 20% of the installed energy capacity and that capacity, and
\* charge plus discharge is at most the installed power capacity.
C3_StorageLimits ==
    \A x \in Admitted : \A i \in instance.t :
        /\ 100 * x.ESS_SOC[i] >= 20 * x.cap.ESS_energy_cap
        /\ x.ESS_SOC[i] <= x.cap.ESS_energy_cap
        /\ x.ESS_c[i] + x.ESS_d[i] <= x.cap.ESS_power_cap

\* An admitted solution with a store installed, at its minimum level in one
\* hour and charging at full power in another.
C3_Witness ==
    \E x \in Admitted :
        /\ x.cap.ESS_energy_cap > 0
        /\ \E i \in instance.t : 100 * x.ESS_SOC[i] = 20 * x.cap.ESS_energy_cap
        /\ \E i \in instance.t :
             x.ESS_c[i] > 0 /\ x.ESS_c[i] + x.ESS_d[i] = x.cap.ESS_power_cap

NonNegative(x, hours) ==
    /\ \A k \in tech : x.cap[k] >= 0
    /\ \A i \in hours :
         x.ESS_SOC[i] >= 0 /\ x.ESS_c[i] >= 0 /\ x.ESS_d[i] >= 0 /\ x.curt[i] >= 0

\* C4: every capacity and every dispatch variable is >= 0, in every admitted
\* solution and in the solution the solver returns.
C4_NonNegative ==
    /\ \A x \in Admitted : NonNegative(x, instance.t)
    /\ Solved => NonNegative(values, instance.t)

\* A returned solution with a positive capacity and an hour without
\* curtailment.
C4_Witness ==
    /\ Solved
    /\ \E k \in tech : values.cap[k] > 0
    /\ \E i \in instance.t : values.curt[i] = 0 /\ values.ESS_c[i] > 0

\* C5: with zero demand in every hour (and the configured, strictly positive
\* costs) the returned optimum has all four capacities zero and costs zero.
C5_ZeroDemand ==
    (Solved /\ \A i \in instance.t : instance.demand[i] = 0)
        => /\ \A k \in tech : values.cap[k] = 0
           /\ obj_expression(Model(instance, values)) = 0

\* A solved instance with zero demand and generation available.
C5_Witness ==
    /\ Solved
    /\ \A i \in instance.t : instance.demand[i] = 0
    /\ \E i \in instance.t : instance.solar[i] = 1 /\ instance.wind[i] = 1

\* The 4-hour scenario, solved with zero storage costs.
ToyScenario ==
    /\ Solved
    /\ instance.solar = Series(ToySolar)
    /\ instance.wind = Series(ToyWind)
    /\ \A i \in instance.t : instance.demand[i] = DischargeStep
    /\ instance.costs = ZeroStorageCosts

\* C6 as stated: the scenario's optimum installs solar = wind = demand and
\* uses neither curtailment nor storage.
C6_Original ==
    ToyScenario
        => /\ values.cap.s_cap = DischargeStep
           /\ values.cap.w_cap = DischargeStep
           /\ \A i \in instance.t :
                values.curt[i] = 0 /\ values.ESS_c[i] = 0 /\ values.ESS_d[i] = 0

\* C6 amended: the scenario's optimum installs solar only, demand times
\* (1 + 1/(0.95*0.9)), charges the surplus in the two solar hours and
\* discharges the demand in the two others, without curtailment.
C6_SolarAndStorage ==
    ToyScenario
        => /\ values.cap.s_cap = DischargeStep + ChargeStep
           /\ values.cap.w_cap = 0
           /\ \A i \in instance.t : values.curt[i] = 0
           /\ values.ESS_c = Series(<<ChargeStep, ChargeStep, 0, 0>>)
           /\ values.ESS_d = Series(<<0, 0, DischargeStep, DischargeStep>>)

\* The scenario has been solved and its results written.
C6_Witness == ToyScenario /\ output.written

\* C7 as stated: with non-negative, well-formed series (all the files are)
\* the solve step never ends infeasible.
C7_Original == results.termination # "infeasible"

\* C7 amended: the solve step ends infeasible exactly when no hour has a
\* positive capacity factor and some hour has positive demand; with a
\* positive capacity factor somewhere, or no demand, it never does.
C7_InfeasibleIffNoGeneration ==
    results.termination # "none"
        => ((results.termination = "infeasible")
              <=> (AllZeroCF /\ \E i \in file.t : file.demand[i] > 0))

\* Solved although an hour with demand has neither sun nor wind.
C7_Witness ==
    /\ results.termination = "optimal"
    /\ \E i \in file.t :
         file.demand[i] > 0 /\ file.wind[i] = 0 /\ file.solar[i] = 0

\* C8 as stated: a result is written only for a complete optimal solution;
\* after a failed solve nothing is written.
C8_NoResultOnFailure ==
    output.written
        => output.termination = "optimal" /\ output.solution.loaded

\* C9 as stated: a file that does not have Hours rows leaves no instance and
\* the solver is never invoked.
C9_ShortFileRejected ==
    Cardinality(file.t) # Hours
        => /\ ~instance.created
           /\ pc \notin {"solve", "store_to", "write", "done"}

\* The energy the store takes in minus what it gives out, times
\* 100 * ESS_eta_d.
RECURSIVE NetStored(_, _)
NetStored(x, hours) ==
    IF hours = {} THEN 0
    ELSE LET i == CHOOSE j \in hours : TRUE
         IN ESS_eta_c * ESS_eta_d * x.ESS_c[i] - 100 * 100 * x.ESS_d[i]
            + NetStored(x, hours \ {i})

\* C10: in every admitted solution the net stored energy over the horizon,
\* sum of charge*0.95 - discharge/0.9, is zero.
C10_Closure ==
    \A x \in Admitted : NetStored(x, instance.t) = 0

\* An admitted solution that charges and discharges.
C10_Witness ==
    \E x \in Admitted :
        /\ \E i \in instance.t : x.ESS_c[i] > 0
        /\ \E i \in instance.t : x.ESS_d[i] > 0
        /\ \A i \in instance.t : x.ESS_c[i] = 0 \/ x.ESS_d[i] = 0

====
